---- MODULE Spec2Model ----
(***************************************************************************)
(* A model of the InfiniBand operator charm: the Driver Ops Manager        *)
(* (src/src/infiniband_ops_manager.py) and the lifecycle/action handlers   *)
(* that drive it (src/src/charm.py).                                       *)
(*                                                                         *)
(* The surrounding framework runs one handler at a time to completion, so  *)
(* every handler (and every direct call of a manager method) is one        *)
(* action.  An action draws the outcomes of the outside world (exit codes  *)
(* of the external commands, the outcome of an HTTP GET, the resource the  *)
(* operator attached) and records what the run did: the commands it        *)
(* invoked, in order, with their exit codes; the file-system operations;   *)
(* the HTTP requests; the statuses it set; whether it deferred the event;  *)
(* the exception the manager raised and the exception that left the        *)
(* handler.                                                                *)
(*                                                                         *)
(* A Python string built from pieces (an f-string) is a sequence of its    *)
(* pieces; a string whose characters matter (the output of ofed_info) is   *)
(* a sequence of one-character strings.  An argv is a sequence of words.   *)
(***************************************************************************)
EXTENDS Naturals, Sequences, FiniteSets

VARIABLES
    variant,          \* "ubuntu" | "centos": the manager chosen at construction
    repoFile,         \* content of the file at _driver_repo_filepath, or Absent
    status,           \* the unit status
    workloadVersion,  \* the workload version last recorded, or NoVersion
    op,               \* the operation that ran last
    prevOp,           \* the operation that ran before it
    args,             \* what the outside world gave that run
    cmdLog,           \* commands invoked by that run, in order, with exit codes
    fsLog,            \* file-system operations of that run, in order
    httpLog,          \* URLs fetched by that run, in order
    statusLog,        \* statuses set by that run, in order
    deferred,         \* whether that run called event.defer()
    raised,           \* the exception the manager method raised in that run
    escaped,          \* the exception that left the handler
    result            \* the value the manager method returned

vars == <<variant, repoFile, status, workloadVersion, op, prevOp, args, cmdLog,
          fsLog, httpLog, statusLog, deferred, raised, escaped, result>>

----------------------------------------------------------------------------
(* Bounds of the model. *)

\* longest module list handed to a direct call of modprobe
MaxLen == 3
\* longest version string v in an output of `ofed_info -s`
MaxVerLen == 3
\* most external commands that exit non-zero in one run of install
MaxFailing == 2
\* most modules whose modprobe exits non-zero in one run of the modprobe action
MaxFailingModules == 1

----------------------------------------------------------------------------
(* Values. *)

Range(s) == {s[i] : i \in 1..Len(s)}

SeqsUpTo(S, n) == UNION {[1..k -> S] : k \in 0..n}

ExitCodes == {0, 1}

Variants == {"ubuntu", "centos"}

Absent == "<absent>"
None == "<None>"
NoVersion == <<"<unset>">>
NoResult == <<"<no result>">>

\* contents of the repository file the operator attaches as a resource
Contents == {"repo-A", "repo-B"}

\* the body an HTTP response carries
Bodies == {"body-200"}

\* release strings `uname -r` prints
Kernels == {"5.15.0-91-generic"}

\* module names of the lists handed to a direct call of modprobe
ModuleNames == {"a", "b", "c"}

\* characters a version string is made of ("-" and "L" are among the
\* characters of the strip argument, "5" and "." are not)
VerChars == {"5", ".", "-", "L"}

Versions == SeqsUpTo(VerChars, MaxVerLen)

\* the versions ofed_info reports in a run of the install handler
HandlerVersions == {<<"5", ".", "8">>, <<"L", "5">>}

NoExc == [type |-> "none", message |-> <<>>]

\* InfinibandOpsError(message)
InfinibandOpsError(message) == [type |-> "InfinibandOpsError", message |-> message]

\* an exception type the code has no except clause for
OtherExc(type) == [type |-> type, message |-> <<>>]

\* a word of an argv, or a message, that is one literal piece
W(piece) == <<piece>>

\* one invocation of an external command: its argv (a sequence of words),
\* its exit code and, for check_output, the output it captured
Cmd(argv, code, out) == [argv |-> argv, exit |-> code, out |-> out]

WaitingStatus(msg) == [kind |-> "waiting", message |-> msg]
BlockedStatus(msg) == [kind |-> "blocked", message |-> msg]
ActiveStatus(msg) == [kind |-> "active", message |-> msg]
UnknownStatus == [kind |-> "unknown", message |-> <<>>]

----------------------------------------------------------------------------
(* subprocess *)

\* subprocess.run(argv) is called without check=True: it returns a
\* CompletedProcess whatever the exit code and raises no CalledProcessError.
RunRaises(code) == FALSE

\* subprocess.check_output(argv) raises CalledProcessError on a non-zero exit.
CheckOutputRaises(code) == code # 0

----------------------------------------------------------------------------
(* InfinibandOpsManagerBase *)

driver_package == "mlnx-ofed-all"

\* the characters of "MLNX_OFED_LINUX-"
OfedPrefix == <<"M", "L", "N", "X", "_", "O", "F", "E", "D", "_",
                "L", "I", "N", "U", "X", "-">>

\* what `ofed_info -s` prints for version v
OfedOutput(v) == OfedPrefix \o v \o <<":", "\n">>

\* the argument of str.strip in version(): "MLNX_OFED_LINUX-:\n"
StripArg == OfedPrefix \o <<":", "\n">>

RECURSIVE LStrip(_, _)
LStrip(s, chars) ==
    IF s # <<>> /\ Head(s) \in chars THEN LStrip(Tail(s), chars) ELSE s

RECURSIVE RStrip(_, _)
RStrip(s, chars) ==
    IF s # <<>> /\ s[Len(s)] \in chars
    THEN RStrip(SubSeq(s, 1, Len(s) - 1), chars)
    ELSE s

\* str.strip(chars): drop every leading and trailing character that is in
\* the set of characters of chars
StrStrip(s, chars) == RStrip(LStrip(s, Range(chars)), Range(chars))

\* version() without the strip: the decoded output as it is
version_raw(code, output) ==
    LET cmds == <<Cmd(<<W("ofed_info"), W("-s")>>, code, output)>> IN
    IF CheckOutputRaises(code)
    THEN [exc |-> InfinibandOpsError(
                      W("Cannot return version for package that isn't installed.")),
          value |-> NoResult, cmds |-> cmds]
    ELSE [exc |-> NoExc, value |-> output, cmds |-> cmds]

\* version(): [exc, value, cmds]
version(code, output) ==
    LET cmds == <<Cmd(<<W("ofed_info"), W("-s")>>, code, output)>> IN
    IF CheckOutputRaises(code)
    THEN [exc |-> InfinibandOpsError(
                      W("Cannot return version for package that isn't installed.")),
          value |-> NoResult, cmds |-> cmds]
    ELSE [exc |-> NoExc, value |-> StrStrip(output, StripArg), cmds |-> cmds]

\* modprobe(modules): codes[i] is the exit code of the i-th invocation
RECURSIVE modprobe(_, _, _)
modprobe(modules, codes, i) ==
    IF i > Len(modules)
    THEN [exc |-> NoExc, cmds |-> <<>>]
    ELSE LET c == Cmd(<<W("modprobe"), W(modules[i])>>, codes[i], <<>>) IN
         IF RunRaises(codes[i])
         THEN [exc |-> InfinibandOpsError(<<"Error modprobing ", modules[i]>>),
               cmds |-> <<c>>]
         ELSE LET rest == modprobe(modules, codes, i + 1) IN
              [exc |-> rest.exc, cmds |-> <<c>> \o rest.cmds]

----------------------------------------------------------------------------
(* The run of a manager method: what it has done so far. *)

\* cmds, fs, http: the logs; repo: the content of the repository file;
\* exc: the exception being raised (NoExc while the method is running)
Ctx(repo) == [cmds |-> <<>>, fs |-> <<>>, http |-> <<>>, repo |-> repo, exc |-> NoExc]

FsOp(name, path, data) == [op |-> name, path |-> path, data |-> data]

\* run(argv) inside try/except CalledProcessError: raise InfinibandOpsError(message)
TryRun(ctx, argv, code, message) ==
    LET c == [ctx EXCEPT !.cmds = Append(@, Cmd(argv, code, <<>>))] IN
    IF RunRaises(code) THEN [c EXCEPT !.exc = InfinibandOpsError(message)] ELSE c

\* uname_r(): check_output(["/usr/bin/uname", "-r"]), decoded and stripped
uname_r(ctx, code, kernel) ==
    LET out == IF code = 0 THEN <<kernel, "\n">> ELSE <<>>
        c == [ctx EXCEPT !.cmds = Append(@, Cmd(<<W("/usr/bin/uname"), W("-r")>>, code, out))]
    IN IF CheckOutputRaises(code)
       THEN [c EXCEPT !.exc = InfinibandOpsError(W("Error detecting kernel version."))]
       ELSE c

\* requests.get(url): a response (whatever its status code), or an exception.
\* The code catches requests.exceptions.HTTPError alone.
HttpOutcomes ==
    {[kind |-> "response", text |-> b] : b \in Bodies}
        \cup {[kind |-> "HTTPError", text |-> ""], [kind |-> "ConnectionError", text |-> ""]}

NoRequest == [kind |-> "no request", text |-> ""]

HttpGet(ctx, url, outcome) == [ctx EXCEPT !.http = Append(@, [url |-> url, outcome |-> outcome])]

\* _set_repository without its cleanup: the previous file is left alone
RemovePreviousRepo_Skip(ctx, path) == ctx

\* the previous driver repo is removed if it exists
RemovePreviousRepo(ctx, path) ==
    IF ctx.repo # Absent
    THEN [ctx EXCEPT !.fs = Append(@, FsOp("unlink", path, "")), !.repo = Absent]
    ELSE ctx

\* repo_path.rename(path): the supplied file becomes the file at path
RenameRepo(ctx, repo_path, path) ==
    [ctx EXCEPT !.fs = Append(@, FsOp("rename", path, repo_path)), !.repo = repo_path]

----------------------------------------------------------------------------
(* InfinibandOpsManagerUbuntu and InfinibandOpsManagerCentos *)

driver_repo_filepath(v) ==
    IF v = "ubuntu" THEN "/etc/apt/sources.list.d/infiniband.list"
    ELSE "/etc/yum.repos.d/infiniband.repo"

key_url == "http://www.mellanox.com/downloads/ofed/RPM-GPG-KEY-Mellanox"

repo_url ==
    "http://linux.mellanox.com/public/repo/mlnx_ofed/5.8-1.1.2.1/rhel7.9/mellanox_mlnx_ofed.repo"

tmp_key_path == "<tmpdir>/mellanox.gpg"

\* the steps of install whose exit code the outside world decides
InstallSteps(v) ==
    IF v = "ubuntu" THEN {"key", "refresh", "uname", "headers", "driver"}
    ELSE {"refresh", "uname", "headers", "driver"}

\* The exit codes the outside world gives a run of install.  A step the run
\* does not reach has no exit code (written 0): no step is reached when the
\* HTTP GET raises or when Ubuntu is given no repository, and none after
\* uname -r when uname -r fails.
InstallExits(v, repo_path, http) ==
    {e \in [InstallSteps(v) -> ExitCodes] :
        /\ (http.kind \in {"HTTPError", "ConnectionError"} \/ (v = "ubuntu" /\ repo_path = None))
               => \A st \in InstallSteps(v) : e[st] = 0
        /\ e["uname"] # 0 => (e["headers"] = 0 /\ e["driver"] = 0)
        /\ Cardinality({st \in InstallSteps(v) : e[st] # 0}) <= MaxFailing}

\* whether _set_repository reaches its requests.get
FetchReached(v, repo_path) ==
    (v = "ubuntu" /\ repo_path # None) \/ (v = "centos" /\ repo_path = None)

\* the with-block of the temporary directory: the GPG key is fetched,
\* written and trusted; the directory is deleted however the block is left
UbuntuAddKey(ctx, in) ==
    LET c1 == [ctx EXCEPT !.fs = Append(@, FsOp("mkdtemp", "<tmpdir>", ""))]
        c2 == HttpGet(c1, key_url, in.http)
        c3 == IF in.http.kind = "HTTPError"
              THEN [c2 EXCEPT !.exc = InfinibandOpsError(
                                          <<"Error getting InfiniBand GPG key ", key_url>>)]
              ELSE IF in.http.kind # "response"
              THEN [c2 EXCEPT !.exc = OtherExc(in.http.kind)]
              ELSE TryRun([c2 EXCEPT !.fs = Append(@, FsOp("write", tmp_key_path, in.http.text))],
                          <<W("apt-key"), W("add"), W(tmp_key_path)>>, in.exit["key"],
                          W("Failed to add InfiniBand GPG key"))
    IN [c3 EXCEPT !.fs = Append(@, FsOp("rmtree", "<tmpdir>", ""))]

Ubuntu_set_repository(ctx, repo_path, in) ==
    LET path == driver_repo_filepath("ubuntu")
        c1 == RemovePreviousRepo(ctx, path)
    IN IF repo_path # None
       THEN UbuntuAddKey(RenameRepo(c1, repo_path, path), in)
       ELSE [c1 EXCEPT !.exc = InfinibandOpsError(W("No InfiniBand repository provided"))]

\* Centos _set_repository that fetches the default repository and drops it
Centos_set_repository_NoWrite(ctx, repo_path, in) ==
    LET path == driver_repo_filepath("centos")
        c1 == RemovePreviousRepo(ctx, path)
    IN IF repo_path # None
       THEN RenameRepo(c1, repo_path, path)
       ELSE LET c2 == HttpGet(c1, repo_url, in.http) IN
            IF in.http.kind = "HTTPError"
            THEN [c2 EXCEPT !.exc = InfinibandOpsError(
                                        <<"Error getting InfiniBand repository from ", repo_url>>)]
            ELSE IF in.http.kind # "response"
            THEN [c2 EXCEPT !.exc = OtherExc(in.http.kind)]
            ELSE c2

Centos_set_repository(ctx, repo_path, in) ==
    LET path == driver_repo_filepath("centos")
        c1 == RemovePreviousRepo(ctx, path)
    IN IF repo_path # None
       THEN RenameRepo(c1, repo_path, path)
       ELSE LET c2 == HttpGet(c1, repo_url, in.http) IN
            IF in.http.kind = "HTTPError"
            THEN [c2 EXCEPT !.exc = InfinibandOpsError(
                                        <<"Error getting InfiniBand repository from ", repo_url>>)]
            ELSE IF in.http.kind # "response"
            THEN [c2 EXCEPT !.exc = OtherExc(in.http.kind)]
            ELSE [c2 EXCEPT !.fs = Append(@, FsOp("write", path, in.http.text)),
                            !.repo = in.http.text]

\* the argv and the error message of each package-manager step
RefreshArgv(v) ==
    IF v = "ubuntu" THEN <<W("apt-get"), W("update")>>
    ELSE <<W("yum"), W("clean"), W("expire-cache")>>

\* (the Ubuntu message quotes the command: "Error running `apt-get update`")
RefreshError(v) ==
    IF v = "ubuntu" THEN <<"Error running ", "apt-get update">>
    ELSE W("Error flushing the cache")

HeadersArgv(v, uname) ==
    IF v = "ubuntu"
    THEN <<W("apt-get"), W("install"), W("-y"), <<"linux-headers-", uname>>>>
    ELSE <<W("yum"), W("install"), W("-y"), <<"kernel-devel-", uname>>,
           <<"kernel-headers-", uname>>>>

HeadersError(v) ==
    IF v = "ubuntu" THEN W("Error installing kernel headers")
    ELSE W("Error installing devel kernel headers")

DriverArgv(v) ==
    IF v = "ubuntu" THEN <<W("apt-get"), W("install"), W("-y"), W(driver_package)>>
    ELSE <<W("yum"), W("install"), W("-y"), W(driver_package)>>

DriverError(v) ==
    IF v = "ubuntu" THEN W("Error installing InfiniBand drivers")
    ELSE <<"Error installing InfiniBand ", driver_package, " drivers">>

PurgeArgv(v) ==
    IF v = "ubuntu"
    THEN <<W("apt-get"), W("-y"), W("remove"), W("--purge"), W(driver_package)>>
    ELSE <<W("yum"), W("erase"), W("-y"), W(driver_package)>>

PurgeError(v) ==
    IF v = "ubuntu" THEN W("Error removing InfiniBand drivers")
    ELSE W("Error removing InfiniBand drivers from the system")

\* install(repo_path) of the variant v; in: [http, exit, kernel]
install(v, ctx, repo_path, in) ==
    LET c1 == IF v = "ubuntu" THEN Ubuntu_set_repository(ctx, repo_path, in)
              ELSE Centos_set_repository(ctx, repo_path, in)
    IN IF c1.exc # NoExc THEN c1 ELSE
    LET c2 == TryRun(c1, RefreshArgv(v), in.exit["refresh"], RefreshError(v))
    IN IF c2.exc # NoExc THEN c2 ELSE
    LET c3 == uname_r(c2, in.exit["uname"], in.kernel)
    IN IF c3.exc # NoExc THEN c3 ELSE
    LET c4 == TryRun(c3, HeadersArgv(v, in.kernel), in.exit["headers"], HeadersError(v))
    IN IF c4.exc # NoExc THEN c4 ELSE
    TryRun(c4, DriverArgv(v), in.exit["driver"], DriverError(v))

\* remove() unlinking without asking whether the file exists
RemoveRepo_NoExistsCheck(ctx, path) ==
    IF ctx.repo # Absent
    THEN [ctx EXCEPT !.fs = Append(@, FsOp("unlink", path, "")), !.repo = Absent]
    ELSE [ctx EXCEPT !.exc = OtherExc("FileNotFoundError")]

\* the repository file is deleted if it exists
RemoveRepo(ctx, path) ==
    IF ctx.repo # Absent
    THEN [ctx EXCEPT !.fs = Append(@, FsOp("unlink", path, "")), !.repo = Absent]
    ELSE ctx

\* remove() of the variant v; exit: [purge, refresh]
remove(v, ctx, exit) ==
    LET c1 == TryRun(ctx, PurgeArgv(v), exit["purge"], PurgeError(v))
        c2 == RemoveRepo(c1, driver_repo_filepath(v))
        c3 == TryRun(c2, RefreshArgv(v), exit["refresh"], RefreshError(v))
    IN IF c1.exc # NoExc THEN c1 ELSE IF c2.exc # NoExc THEN c2 ELSE c3

----------------------------------------------------------------------------
(* Direct calls of the manager's methods. *)

CallVersion ==
    \E code \in ExitCodes :
    \E v \in (IF code = 0 THEN Versions ELSE {<<>>}) :
        LET out == IF code = 0 THEN OfedOutput(v) ELSE <<>>
            r == version(code, out)
        IN /\ op' = "version"
           /\ prevOp' = op
           /\ args' = [v |-> v]
           /\ cmdLog' = r.cmds
           /\ fsLog' = <<>>
           /\ httpLog' = <<>>
           /\ statusLog' = <<>>
           /\ deferred' = FALSE
           /\ raised' = r.exc
           /\ escaped' = r.exc
           /\ result' = r.value
           /\ UNCHANGED <<variant, repoFile, status, workloadVersion>>

CallModprobe ==
    \E modules \in SeqsUpTo(ModuleNames, MaxLen) :
    \E codes \in [1..Len(modules) -> ExitCodes] :
        LET r == modprobe(modules, codes, 1) IN
        /\ op' = "modprobe"
        /\ prevOp' = op
        /\ args' = [modules |-> modules, codes |-> codes]
        /\ cmdLog' = r.cmds
        /\ fsLog' = <<>>
        /\ httpLog' = <<>>
        /\ statusLog' = <<>>
        /\ deferred' = FALSE
        /\ raised' = r.exc
        /\ escaped' = r.exc
        /\ result' = NoResult
        /\ UNCHANGED <<variant, repoFile, status, workloadVersion>>

----------------------------------------------------------------------------

Init ==
    /\ variant \in Variants
    /\ repoFile = Absent
    /\ status = UnknownStatus
    /\ workloadVersion = NoVersion
    /\ op = "none"
    /\ prevOp = "none"
    /\ args = <<>>
    /\ cmdLog = <<>>
    /\ fsLog = <<>>
    /\ httpLog = <<>>
    /\ statusLog = <<>>
    /\ deferred = FALSE
    /\ raised = NoExc
    /\ escaped = NoExc
    /\ result = NoResult

----------------------------------------------------------------------------
(* InfinibandOperator: the handlers. *)

\* self.model.resources.fetch(resource_name): the path of the attached file
\* (here: its content), or ModelError, after which repo_path is None
ResourceOutcomes == {None} \cup Contents

\* the except-branch of a handler: logger.error(e), BlockedStatus(e), defer
HandlerBlocked(waiting, e) ==
    /\ status' = BlockedStatus(e.message)
    /\ statusLog' = <<waiting, BlockedStatus(e.message)>>
    /\ deferred' = TRUE
    /\ escaped' = NoExc

\* an exception no except clause of the handler matches leaves the handler
HandlerCrashed(waiting, e) ==
    /\ status' = waiting
    /\ statusLog' = <<waiting>>
    /\ deferred' = FALSE
    /\ escaped' = e

\* the handler returns with the last status it set
HandlerReturned(log) ==
    /\ status' = log[Len(log)]
    /\ statusLog' = log
    /\ deferred' = FALSE
    /\ escaped' = NoExc

install_msg == W("Installing Infiniband drivers...")
remove_msg == W("Removing Infiniband drivers...")
modprobe_msg == W("Modprobing InfiniBand modules...")
Ready == ActiveStatus(W("Ready"))

\* _on_install(event)
InstallEvent ==
    \E repo_path \in ResourceOutcomes :
    \E http \in (IF FetchReached(variant, repo_path) THEN HttpOutcomes ELSE {NoRequest}) :
    \E exit \in InstallExits(variant, repo_path, http) :
    \E kernel \in Kernels :
        LET waiting == WaitingStatus(install_msg)
            r == install(variant, Ctx(repoFile), repo_path,
                         [http |-> http, exit |-> exit, kernel |-> kernel])
        IN /\ op' = "install"
           /\ prevOp' = op
           /\ args' = [repo_path |-> repo_path]
           /\ fsLog' = r.fs
           /\ httpLog' = r.http
           /\ repoFile' = r.repo
           /\ result' = NoResult
           /\ UNCHANGED variant
           /\ IF r.exc.type = "InfinibandOpsError"
              THEN /\ HandlerBlocked(waiting, r.exc)
                   /\ cmdLog' = r.cmds
                   /\ raised' = r.exc
                   /\ UNCHANGED workloadVersion
              ELSE IF r.exc # NoExc
              THEN /\ HandlerCrashed(waiting, r.exc)
                   /\ cmdLog' = r.cmds
                   /\ raised' = r.exc
                   /\ UNCHANGED workloadVersion
              ELSE \E code \in ExitCodes :
                   \E v \in (IF code = 0 THEN HandlerVersions ELSE {<<>>}) :
                       LET vr == version(code, IF code = 0 THEN OfedOutput(v) ELSE <<>>) IN
                       /\ cmdLog' = r.cmds \o vr.cmds
                       /\ raised' = vr.exc
                       /\ IF vr.exc # NoExc
                          THEN /\ HandlerCrashed(waiting, vr.exc)
                               /\ UNCHANGED workloadVersion
                          ELSE /\ workloadVersion' = vr.value
                               /\ HandlerReturned(<<waiting, Ready>>)

\* _on_remove(event)
RemoveEvent ==
    \E exit \in [{"purge", "refresh"} -> ExitCodes] :
        LET waiting == WaitingStatus(remove_msg)
            r == remove(variant, Ctx(repoFile), exit)
        IN /\ op' = "remove"
           /\ prevOp' = op
           /\ args' = <<>>
           /\ cmdLog' = r.cmds
           /\ fsLog' = r.fs
           /\ httpLog' = r.http
           /\ repoFile' = r.repo
           /\ raised' = r.exc
           /\ result' = NoResult
           /\ UNCHANGED <<variant, workloadVersion>>
           /\ IF r.exc.type = "InfinibandOpsError"
              THEN HandlerBlocked(waiting, r.exc)
              ELSE IF r.exc # NoExc
              THEN HandlerCrashed(waiting, r.exc)
              ELSE HandlerReturned(<<waiting>>)

\* the module list of modprobe_action
ActionModules ==
    <<"rdma_ucm", "rdma_cm", "ib_ipoib", "mlx5_core", "mlx5_ib",
      "ib_uverbs", "ib_umad", "ib_cm", "ib_core", "mlxfw">>

\* modprobe_action(event)
ModprobeAction ==
    \E failing \in {F \in SUBSET Range(ActionModules) : Cardinality(F) <= MaxFailingModules} :
        LET waiting == WaitingStatus(modprobe_msg)
            codes == [i \in 1..Len(ActionModules) |->
                         IF ActionModules[i] \in failing THEN 1 ELSE 0]
            r == modprobe(ActionModules, codes, 1)
        IN /\ op' = "modprobe_action"
           /\ prevOp' = op
           /\ args' = <<>>
           /\ cmdLog' = r.cmds
           /\ fsLog' = <<>>
           /\ httpLog' = <<>>
           /\ raised' = r.exc
           /\ result' = NoResult
           /\ UNCHANGED <<variant, repoFile, workloadVersion>>
           /\ IF r.exc.type = "InfinibandOpsError"
              THEN HandlerBlocked(waiting, r.exc)
              ELSE HandlerReturned(<<waiting, Ready>>)

Next ==
    \/ InstallEvent
    \/ RemoveEvent
    \/ ModprobeAction

Spec == Init /\ [][Next]_vars

\* the manager's methods called directly, on any input
NextOps ==
    \/ CallVersion
    \/ CallModprobe

SpecOps == Init /\ [][NextOps]_vars

----------------------------------------------------------------------------
(* What a run did, read from its logs. *)

Invoked(argv) == \E i \in 1..Len(cmdLog) : cmdLog[i].argv = argv

\* the command argv was invoked and exited non-zero
Failed(argv) == \E i \in 1..Len(cmdLog) : cmdLog[i].argv = argv /\ cmdLog[i].exit # 0

\* every command the run invoked exited zero
AllExitZero == \A i \in 1..Len(cmdLog) : cmdLog[i].exit = 0

\* every HTTP request the run made returned a response
AllFetched == \A i \in 1..Len(httpLog) : httpLog[i].outcome.kind = "response"

OfedArgv == <<W("ofed_info"), W("-s")>>

ModprobeArgv(m) == <<W("modprobe"), W(m)>>

UnlinkRepo == FsOp("unlink", driver_repo_filepath(variant), "")

\* the install handler went Waiting then Active, did not defer, and recorded
\* the version derived from what ofed_info printed
InstallReady ==
    /\ statusLog = <<WaitingStatus(install_msg), Ready>>
    /\ status = Ready
    /\ ~deferred
    /\ escaped = NoExc
    /\ cmdLog # <<>>
    /\ cmdLog[Len(cmdLog)].argv = OfedArgv
    /\ workloadVersion = StrStrip(cmdLog[Len(cmdLog)].out, StripArg)

----------------------------------------------------------------------------
(* The claims. *)

\* C1: when the install handler runs and the kernel-headers install command
\* exits non-zero, the status goes Waiting then Blocked with the headers
\* message, the event is deferred and the driver package install command is
\* not invoked in that run.
C1_HeadersFailureBlocks ==
    (op = "install" /\ \E k \in Kernels : Failed(HeadersArgv(variant, k)))
        => /\ statusLog = <<WaitingStatus(install_msg), BlockedStatus(HeadersError(variant))>>
           /\ status = BlockedStatus(HeadersError(variant))
           /\ deferred
           /\ ~Invoked(DriverArgv(variant))

\* C2: modprobe(modules), when the k-th modprobe exits non-zero and all
\* earlier ones exit zero, invokes modprobe for exactly the first k entries,
\* in order, and raises an error that names the k-th module.
C2_ModprobeFailFast ==
    op = "modprobe" =>
        \A k \in 1..Len(args.modules) :
            (args.codes[k] # 0 /\ \A j \in 1..(k - 1) : args.codes[j] = 0)
                => /\ Len(cmdLog) = k
                   /\ \A i \in 1..k : cmdLog[i].argv = ModprobeArgv(args.modules[i])
                   /\ raised = InfinibandOpsError(<<"Error modprobing ", args.modules[k]>>)

C4_UbuntuNoRepo ==
    /\ raised = InfinibandOpsError(W("No InfiniBand repository provided"))
    /\ fsLog \in {<<>>, <<UnlinkRepo>>}
    /\ repoFile = Absent
    /\ httpLog = <<>>
    /\ cmdLog = <<>>

\* the body of the default repository is at the destination and the
\* package-manager steps have begun
C4_CentosWroteDefault ==
    /\ fsLog # <<>>
    /\ fsLog[Len(fsLog)] = FsOp("write", driver_repo_filepath("centos"), httpLog[1].outcome.text)
    /\ repoFile = httpLog[1].outcome.text
    /\ cmdLog # <<>>
    /\ cmdLog[1].argv = RefreshArgv("centos")

C4_CentosFetched == Len(httpLog) = 1 /\ httpLog[1].url = repo_url

\* C4 as stated: install without a repository file fails on Ubuntu as above;
\* on Centos it fetches the default repository URL, writes the body to the
\* destination and goes on to the package-manager steps.
C4_Original ==
    (op = "install" /\ args.repo_path = None)
        => /\ variant = "ubuntu" => C4_UbuntuNoRepo
           /\ variant = "centos" => (C4_CentosFetched /\ C4_CentosWroteDefault)

\* C4 amended: on Centos it fetches the default repository URL and, when the
\* fetch returns a response, writes the body to the destination and goes on
\* to the package-manager steps; when the fetch raises, nothing is written
\* and no command is invoked.
C4_NoRepository ==
    (op = "install" /\ args.repo_path = None)
        => /\ variant = "ubuntu" => C4_UbuntuNoRepo
           /\ variant = "centos" =>
                /\ C4_CentosFetched
                /\ AllFetched => C4_CentosWroteDefault
                /\ ~AllFetched => (repoFile = Absent /\ cmdLog = <<>> /\ raised # NoExc
                                   /\ fsLog \in {<<>>, <<UnlinkRepo>>})

C4_Witness ==
    /\ op = "install"
    /\ variant = "centos"
    /\ args.repo_path = None
    /\ fsLog = <<UnlinkRepo, FsOp("write", driver_repo_filepath("centos"), "body-200")>>
    /\ repoFile = "body-200"
    /\ Invoked(DriverArgv("centos"))

\* C5: a run of install with a repository file supplied, whatever was at
\* the destination before and whatever ran before, first deletes the file at
\* the destination if there is one, then moves the supplied file there; the
\* destination holds the supplied content when the run ends, also when a
\* later step of the run fails.
C5_InstallReplacesRepoFile ==
    [][(op' = "install" /\ args'.repo_path # None)
        => LET dest == driver_repo_filepath(variant)
               move == FsOp("rename", dest, args'.repo_path)
           IN /\ repoFile' = args'.repo_path
              /\ IF repoFile # Absent
                 THEN Len(fsLog') >= 2 /\ fsLog'[1] = FsOp("unlink", dest, "") /\ fsLog'[2] = move
                 ELSE Len(fsLog') >= 1 /\ fsLog'[1] = move
              /\ \A i \in 1..Len(fsLog') : fsLog'[i].path = dest => i <= 2]_vars

C5_Witness ==
    /\ op = "install"
    /\ prevOp \in {"install", "remove"}
    /\ args.repo_path = "repo-B"
    /\ fsLog # <<>> /\ fsLog[1] = UnlinkRepo
    /\ raised.type = "InfinibandOpsError"
    /\ status.kind = "blocked"
    /\ repoFile = "repo-B"

\* C6: of two runs of remove in succession whose commands all exit zero, the
\* second raises nothing although the repository file is already absent, and
\* the file is absent after each of the two.
C6_RemoveIdempotent ==
    [][(op = "remove" /\ AllExitZero /\ op' = "remove" /\ \A i \in 1..Len(cmdLog') : cmdLog'[i].exit = 0)
        => /\ repoFile = Absent
           /\ repoFile' = Absent
           /\ fsLog' = <<>>
           /\ raised' = NoExc
           /\ escaped' = NoExc
           /\ ~deferred']_vars

C6_Witness ==
    /\ op = "remove"
    /\ prevOp = "remove"
    /\ AllExitZero
    /\ Len(cmdLog) = 2
    /\ fsLog = <<>>
    /\ repoFile = Absent
    /\ raised = NoExc

\* C7: remove() purges the driver package, deletes the repository file,
\* refreshes the index, in this order; when the purge command exits non-zero
\* it raises the removal error, leaves the repository file in place and does
\* not invoke the refresh command.
C7_RemoveAbortsOnPurgeFailure ==
    op = "remove" =>
        /\ cmdLog[1].argv = PurgeArgv(variant)
        /\ cmdLog[1].exit # 0 =>
              /\ raised = InfinibandOpsError(PurgeError(variant))
              /\ fsLog = <<>>
              /\ ~Invoked(RefreshArgv(variant))
        /\ cmdLog[1].exit = 0 =>
              /\ Len(cmdLog) = 2 /\ cmdLog[2].argv = RefreshArgv(variant)
              /\ repoFile = Absent

\* C8: version() returns exactly v when ofed_info exits zero and prints
\* "MLNX_OFED_LINUX-" v ":\n", and fails with the "not installed" error when
\* ofed_info exits non-zero.
C8_VersionReturnsV ==
    op = "version" =>
        IF cmdLog[1].exit = 0
        THEN raised = NoExc /\ result = args.v
        ELSE raised = InfinibandOpsError(
                          W("Cannot return version for package that isn't installed."))

\* C9: a run of the remove handler or of the modprobe action in which a
\* command exits non-zero ends Blocked, with an InfinibandOpsError message,
\* and deferred; a run in which every command exits zero is not deferred and
\* never Blocked, and the modprobe action then ends Active.
C9_HandlersBlockOnFailure ==
    op \in {"remove", "modprobe_action"} =>
        IF AllExitZero
        THEN /\ ~deferred
             /\ \A i \in 1..Len(statusLog) : statusLog[i].kind # "blocked"
             /\ op = "modprobe_action" => status = Ready
        ELSE /\ status.kind = "blocked"
             /\ raised.type = "InfinibandOpsError"
             /\ status.message = raised.message
             /\ deferred

\* C10: every run of the install handler (whose HTTP requests, if any, are
\* answered) ends Blocked and deferred, or Active and not deferred; it never
\* ends Waiting and no InfinibandOpsError leaves the handler.
C10_InstallEndsBlockedOrActive ==
    (op = "install" /\ AllFetched) =>
        /\ \/ status.kind = "blocked" /\ deferred
           \/ status.kind = "active" /\ ~deferred
        /\ escaped.type # "InfinibandOpsError"

====
